---- MODULE Spec2Model ----
(***************************************************************************)
(* A model of progressbar.bar.ProgressBar (src/progressbar/bar.py): the    *)
(* bar's fields, its constructor, init(), the iterator protocol            *)
(* (__call__/__next__), the destructor and the operations start(),         *)
(* update() and finish() as the source defines them.                       *)
(*                                                                         *)
(* Time is counted in ticks of 0.05 s, so that _MINIMUM_UPDATE_INTERVAL    *)
(* is one tick.  Python's None is the integer -1 and the UnknownLength     *)
(* sentinel is -2; every number the program handles here is >= 0.          *)
(***************************************************************************)
EXTENDS Integers, Sequences, FiniteSets, TLC

\* ---------------------------------------------------------------- bounds
MaxValue == 2       \* values, bounds and update arguments range over 0..MaxValue
MaxTime == 1        \* the clock runs from 0 to MaxTime ticks
MaxCalls == 3       \* init/start/update/finish invocations per behaviour
MaxItems == 2       \* length of the longest wrapped sequence

\* ------------------------------------------------------------- constants
None == -1
UnknownLength == -2
MINIMUM_UPDATE_INTERVAL == 1

Values == 0 .. MaxValue
Items == <<"a", "b", "c", "d">>
Iterables == { SubSeq(Items, 1, n) : n \in 0 .. MaxItems }

Max(a, b) == IF a >= b THEN a ELSE b

\* Python's truth value of an optional number: None and 0 are false.
Truthy(x) == x # None /\ x # 0

\* ---------------------------------------------------- the bar's attributes
\* An instance none of whose attributes has been assigned: every read
\* finds the class attribute (_started, _finished, _last_update_time,
\* term_width, num_intervals, next_update, fd).  The field dict holds the
\* names assigned so far of the attributes the class declares without a
\* value (bar.py:29-48, 303); the fields of such an attribute hold a
\* placeholder until it is assigned, and reading it before that raises
\* AttributeError.
new ==
    [ dict              |-> {},
      started           |-> FALSE,
      finished          |-> FALSE,
      last_update_time  |-> None,
      min_value         |-> None,
      max_value         |-> None,
      max_error         |-> FALSE,
      value             |-> None,
      previous_value    |-> None,
      num_intervals     |-> 0,
      next_update       |-> 0,
      start_time        |-> None,
      end_time          |-> None,
      has_iterable      |-> FALSE,
      iterable          |-> << >>,
      variables         |-> None,
      fd                |-> << >>,
      poll_interval     |-> None,
      min_poll_interval |-> None,
      term_width        |-> 80 ]

hasattr(b, name) == name \in b.dict

\* self.<name> = value.
setattr(b, name, value) ==
    LET InstanceAttrs ==
          { "min_value", "max_value", "max_error", "value",
            "previous_value", "start_time", "end_time", "_iterable",
            "poll_interval", "min_poll_interval", "variables" }
    IN  [ b EXCEPT ![name] = value,
                   !.dict = @ \cup ({ name } \cap InstanceAttrs) ]

\* ProgressBarMixinBase.set_last_update_time(value), which is also the
\* setter of the property last_update_time.
set_last_update_time(b, value) == [ b EXCEPT !.last_update_time = value ]

\* ------------------------------------------------------ ProgressBar.init
\* The assignments are made in order: with no min_value on the instance
\* the fifth one raises AttributeError after the first four.
init(b) ==
    LET first == [ b EXCEPT !.started = FALSE,
                            !.finished = FALSE,
                            !.last_update_time = None,
                            !.previous_value = None,
                            !.dict = @ \cup { "previous_value" } ]
    IN  IF ~hasattr(b, "min_value")
        THEN [ exc |-> "AttributeError", bar |-> first ]
        ELSE [ exc |-> "none",
               bar |-> [ first EXCEPT
                           !.value = b.min_value,
                           !.num_intervals = 0,
                           !.next_update = 0,
                           !.start_time = None,
                           !.end_time = None,
                           !.dict = @ \cup { "value", "start_time",
                                             "end_time" } ] ]

\* -------------------------------------------------- ProgressBar.__init__
\* utils.deltas_to_seconds on raw seconds: the number itself, and the
\* default for None.
deltas_to_seconds(v, default) == IF v = None THEN default ELSE v

\* max(min_poll_interval or self._MINIMUM_UPDATE_INTERVAL,
\*     self._MINIMUM_UPDATE_INTERVAL,
\*     float(os.environ.get('PROGRESSBAR_MINIMUM_UPDATE_INTERVAL', 0)))
effective_min_poll_interval(min_poll_interval, env_interval) ==
    Max(Max(IF Truthy(min_poll_interval) THEN min_poll_interval
            ELSE MINIMUM_UPDATE_INTERVAL,
            MINIMUM_UPDATE_INTERVAL),
        env_interval)

\* A constructor whose mixin constructors complete: it goes on to the
\* range check, which tests the truth value of max_value, and to the
\* assignments.
ProgressBar_mixins_complete(min_value, max_value, initial_value, poll_interval, min_poll_interval, max_error, env_interval) ==
    IF Truthy(max_value) /\ min_value > max_value
    THEN [ exc |-> "ValueError", bar |-> new ]
    ELSE [ exc |-> "none",
           bar |-> [ init(setattr(setattr(setattr(setattr(new,
                            "min_value", min_value),
                            "max_value", max_value),
                            "max_error", max_error),
                            "value", initial_value)).bar EXCEPT
                       !.min_poll_interval =
                           effective_min_poll_interval(min_poll_interval,
                                                       env_interval),
                       !.dict = @ \cup { "_iterable", "poll_interval",
                                         "min_poll_interval",
                                         "variables" } ] ]

\* ProgressBar(...): the exception the constructor raises and the instance
\* as it is then.  StdRedirectMixin.__init__ comes first and reaches
\* self._apply_line_offset(fd, line_offset) in DefaultFdMixin.__init__,
\* the first statement of the constructor that touches self.  No class of
\* bar.py defines _apply_line_offset: the lookup raises AttributeError, so
\* the range check (ValueError) and the assignments that follow it are
\* never reached.
ProgressBar(min_value, max_value, initial_value, poll_interval, min_poll_interval, max_error, env_interval) ==
    LET mixins == [ exc |-> "AttributeError", bar |-> new ]
        fields ==
          [ mixins.bar EXCEPT
              !.min_value = min_value,
              !.max_value = max_value,
              !.max_error = max_error,
              !.value = initial_value,
              !.has_iterable = FALSE,
              !.dict = @ \cup { "min_value", "max_value", "max_error",
                                "value", "_iterable" } ]
    IN  IF mixins.exc # "none" THEN mixins
        ELSE IF Truthy(max_value) /\ min_value > max_value
        THEN [ exc |-> "ValueError", bar |-> mixins.bar ]
        ELSE [ exc |-> "none",
               bar |-> [ init(fields).bar EXCEPT
                           !.poll_interval =
                               deltas_to_seconds(poll_interval, None),
                           !.min_poll_interval =
                               effective_min_poll_interval(
                                   deltas_to_seconds(min_poll_interval, None),
                                   env_interval),
                           !.dict = @ \cup { "poll_interval",
                                             "min_poll_interval",
                                             "variables" } ] ]

\* ------------------------------------- the operations whose body is `pass`
\* ProgressBar.update(value, force, **kwargs): no statement, returns None.
update(b, value, force, variables) == b

\* ProgressBar.start(max_value): no statement, returns None.
start(b, max_value) == b

\* A finish() that writes its terminating line on every call.
finish_always_writes(b, dirty) == [b EXCEPT !.fd = Append(@, b.value)]

\* ProgressBar.finish(end, dirty): no statement, returns None.
finish(b, dirty) == b

\* -------------------------------------------------- ProgressBar.__call__
\* With no max_value argument the method reads self.max_value.
call(b, iterable, has_len, max_value) ==
    IF max_value = None /\ ~hasattr(b, "max_value")
    THEN [ exc |-> "AttributeError", bar |-> b ]
    ELSE [ exc |-> "none",
           bar |-> [ b EXCEPT
                       !.max_value =
                           IF max_value # None THEN max_value
                           ELSE IF b.max_value = None
                                THEN (IF has_len THEN Len(iterable)
                                      ELSE UnknownLength)
                                ELSE b.max_value,
                       !.has_iterable = TRUE,
                       !.iterable = iterable,
                       !.dict = @ \cup { "max_value", "_iterable" } ] ]

\* -------------------------------------------------- ProgressBar.__next__
\* The outcome of one retrieval: the bar afterwards, the operation the
\* retrieval invoked, the exception raised and the item returned.
\* AttributeError is not caught by __next__.
next(b) ==
    LET raised(c) == [ bar |-> c, made |-> "none",
                       exc |-> "AttributeError", item |-> "" ]
        \* The statements after the item was obtained: start() when
        \* start_time is None and update(self.value + 1) otherwise.
        step(c, item) ==
          IF ~hasattr(c, "start_time") THEN raised(c)
          ELSE IF c.start_time = None
          THEN [ bar |-> start(c, None), made |-> "start", exc |-> "none",
                 item |-> item ]
          ELSE IF ~hasattr(c, "value") THEN raised(c)
          ELSE [ bar |-> update(c, c.value + 1, FALSE, None),
                 made |-> "update", exc |-> "none", item |-> item ]
    IN  IF ~hasattr(b, "_iterable") THEN raised(b)
        ELSE IF ~b.has_iterable
        THEN IF ~hasattr(b, "value") THEN raised(b)
             ELSE step(b, ToString(b.value))
        ELSE IF b.iterable = << >>
        THEN [ bar  |-> finish(b, FALSE), made |-> "finish",
               exc  |-> "StopIteration", item |-> "" ]
        ELSE step([b EXCEPT !.iterable = Tail(b.iterable)],
                  Head(b.iterable))

\* The retrieval when next(self._iterable) raises GeneratorExit: the
\* handler calls finish(dirty=True) and re-raises.  A generator that
\* raised is finished and yields nothing afterwards; an iterator object
\* of another class goes on with the items it has left.
next_generator_exit(b, generator) ==
    [ bar |-> finish([ b EXCEPT !.iterable = IF generator THEN << >>
                                              ELSE b.iterable ], TRUE),
      made |-> "finish", exc |-> "GeneratorExit", item |-> "" ]

\* ------------------------------------- ProgressBar.__iadd__ / increment
\* No class of bar.py defines increment: the attribute lookup
\* `self.increment` raises AttributeError and the bar is left as it was.
increment(b, value) == [ bar |-> b, exc |-> "AttributeError" ]

iadd(b, value) == increment(b, value)

\* ----------------------------------------- ProgressBarMixinBase.__del__
\* Whether the destructor invokes finish().
del_finishes(b) == ~b.finished /\ b.started


\* ------------------------------------------------------- env.ColorSupport
NONE == 0
XTERM == 16
XTERM_256 == 256
XTERM_TRUECOLOR == 16777216
WINDOWS == 8

\* The values an environment variable takes here; "" also stands for an
\* unset variable (os.environ.get(name, '')).
TermStrings ==
    { "", "dumb", "xterm", "xterm-256color", "XTerm-256Color",
      "truecolor", "24bit" }

\* str.lower on these values.
Lower(s) == IF s = "XTerm-256Color" THEN "xterm-256color" ELSE s

\* `needle in value` on the lower-cased values.
Contains(value, needle) ==
    CASE needle = "24bit"     -> value = "24bit"
      [] needle = "truecolor" -> value = "truecolor"
      [] needle = "256"       -> value = "xterm-256color"
      [] needle = "xterm"     -> value \in {"xterm", "xterm-256color"}
      [] OTHER                -> FALSE

\* One pass of the loop body of from_env: the level the value makes the
\* loop return, or None when the loop goes on to the next variable.
from_env_value(value) ==
    IF Contains(value, "24bit") \/ Contains(value, "truecolor")
    THEN XTERM_TRUECOLOR
    ELSE IF Contains(value, "256") THEN XTERM_256
    ELSE IF Contains(value, "xterm") THEN XTERM
    ELSE None

from_env(jupyter, term, colorterm, color) ==
    IF jupyter THEN XTERM_TRUECOLOR
    ELSE IF from_env_value(Lower(term)) # None
         THEN from_env_value(Lower(term))
    ELSE IF from_env_value(Lower(colorterm)) # None
         THEN from_env_value(Lower(colorterm))
    ELSE IF from_env_value(Lower(color)) # None
         THEN from_env_value(Lower(color))
    ELSE NONE

\* ----------------------------------------------------------- env.env_flag
\* The raw value of a flag variable; Unset is os.environ.get's None.
Unset == "<unset>"
FlagStrings == { Unset, "1", " Yes ", "TRUE", "0", "off", "maybe", "" }

\* value.lower().strip() on these values.
LowerStrip(s) ==
    CASE s = " Yes " -> "yes"
      [] s = "TRUE"  -> "true"
      [] OTHER       -> s

\* The flag as "True", "False" or the default.
env_flag(raw, default) ==
    IF raw = Unset THEN default
    ELSE IF LowerStrip(raw) \in {"y", "yes", "1", "true", "on"} THEN "True"
    ELSE IF LowerStrip(raw) \in {"n", "no", "0", "false", "off"} THEN "False"
    ELSE default

\* ------------------------------- DefaultFdMixin._determine_enable_colors
\* The request: None, True, False, a ColorSupport member, or anything else.
Requests ==
    { [ kind |-> "None", level |-> NONE ], [ kind |-> "True", level |-> NONE ],
      [ kind |-> "False", level |-> NONE ], [ kind |-> "other", level |-> NONE ] }
    \cup { [ kind |-> "ColorSupport", level |-> l ] :
             l \in { NONE, WINDOWS, XTERM, XTERM_256, XTERM_TRUECOLOR } }

\* A resolution that does not consult FORCE_COLOR.
determine_enable_colors_no_force(enable_colors, enable_raw, force_raw, is_ansi_terminal, COLOR_SUPPORT) ==
    CASE enable_colors.kind = "None" ->
           IF env_flag(enable_raw, "None") = "True"
           THEN [ exc |-> "none", ret |-> XTERM_256 ]
           ELSE IF is_ansi_terminal
           THEN [ exc |-> "none", ret |-> COLOR_SUPPORT ]
           ELSE [ exc |-> "none", ret |-> NONE ]
      [] enable_colors.kind = "True"  -> [ exc |-> "none", ret |-> XTERM_256 ]
      [] enable_colors.kind = "False" -> [ exc |-> "none", ret |-> NONE ]
      [] enable_colors.kind = "ColorSupport" ->
           [ exc |-> "none", ret |-> enable_colors.level ]
      [] OTHER -> [ exc |-> "ValueError", ret |-> None ]

determine_enable_colors(enable_colors, enable_raw, force_raw, is_ansi_terminal, COLOR_SUPPORT) ==
    CASE enable_colors.kind = "None" ->
           IF env_flag(enable_raw, "None") = "True"
           THEN [ exc |-> "none", ret |-> XTERM_256 ]
           ELSE IF env_flag(force_raw, "None") = "True"
           THEN [ exc |-> "none", ret |-> XTERM_256 ]
           ELSE IF is_ansi_terminal
           THEN [ exc |-> "none", ret |-> COLOR_SUPPORT ]
           ELSE [ exc |-> "none", ret |-> NONE ]
      [] enable_colors.kind = "True"  -> [ exc |-> "none", ret |-> XTERM_256 ]
      [] enable_colors.kind = "False" -> [ exc |-> "none", ret |-> NONE ]
      [] enable_colors.kind = "ColorSupport" ->
           [ exc |-> "none", ret |-> enable_colors.level ]
      [] OTHER -> [ exc |-> "ValueError", ret |-> None ]

\* ------------------------------------------- Python's float arithmetic
\* A float is an IEEE-754 double.  Its 53-bit significand does not fit a
\* machine integer of the checker, so naturals are kept as sequences of
\* limbs in base 2^15, least significant limb first and without leading
\* zero limbs, and a float is sign * m * 2^e with m odd (or zero).  Every
\* operation computes its exact result and rounds it to 53 significant
\* bits, ties to even.  Overflow, subnormals, infinities and NaN are out
\* of the range of the values computed here.
Base == 32768
LimbBits == 15
Precision == 53

RECURSIVE Norm(_)
Norm(a) ==
    IF a = << >> THEN << >>
    ELSE IF a[Len(a)] = 0 THEN Norm(SubSeq(a, 1, Len(a) - 1))
    ELSE a

RECURSIVE FromNat(_)
FromNat(n) == IF n = 0 THEN << >> ELSE << n % Base >> \o FromNat(n \div Base)

RECURSIVE ToNat(_)
ToNat(a) == IF a = << >> THEN 0 ELSE Head(a) + Base * ToNat(Tail(a))

RECURSIVE AddC(_, _, _)
AddC(a, b, carry) ==
    IF a = << >> /\ b = << >>
    THEN (IF carry = 0 THEN << >> ELSE << carry >>)
    ELSE LET x == IF a = << >> THEN 0 ELSE Head(a)
             y == IF b = << >> THEN 0 ELSE Head(b)
             s == x + y + carry
         IN  << s % Base >> \o
             AddC(IF a = << >> THEN a ELSE Tail(a),
                  IF b = << >> THEN b ELSE Tail(b), s \div Base)

AddN(a, b) == AddC(a, b, 0)

\* a - b for a >= b.
RECURSIVE SubB(_, _, _)
SubB(a, b, borrow) ==
    IF a = << >> THEN << >>
    ELSE LET y == IF b = << >> THEN 0 ELSE Head(b)
             d == Head(a) - y - borrow
         IN  << (d + Base) % Base >> \o
             SubB(Tail(a), IF b = << >> THEN b ELSE Tail(b),
                  IF d < 0 THEN 1 ELSE 0)

SubN(a, b) == Norm(SubB(a, b, 0))

\* -1, 0 or 1 as a < b, a = b or a > b.
RECURSIVE CmpTop(_, _, _)
CmpTop(a, b, i) ==
    IF i = 0 THEN 0
    ELSE IF a[i] < b[i] THEN -1
    ELSE IF a[i] > b[i] THEN 1
    ELSE CmpTop(a, b, i - 1)

CmpN(a, b) ==
    IF Len(a) < Len(b) THEN -1
    ELSE IF Len(a) > Len(b) THEN 1
    ELSE CmpTop(a, b, Len(a))

RECURSIVE MulC(_, _, _)
MulC(a, k, carry) ==
    IF a = << >> THEN (IF carry = 0 THEN << >> ELSE << carry >>)
    ELSE LET p == Head(a) * k + carry
         IN  << p % Base >> \o MulC(Tail(a), k, p \div Base)

MulSmall(a, k) == Norm(MulC(a, k, 0))

RECURSIVE MulN(_, _)
MulN(a, b) ==
    IF a = << >> \/ b = << >> THEN << >>
    ELSE AddN(MulSmall(a, Head(b)),
              LET rest == MulN(a, Tail(b))
              IN  IF rest = << >> THEN << >> ELSE << 0 >> \o rest)

ShiftLeft(a, s) ==
    IF a = << >> THEN << >>
    ELSE [ i \in 1 .. s \div LimbBits |-> 0 ]
         \o MulSmall(a, 2 ^ (s % LimbBits))

\* floor(a / k) for 0 < k < Base, from the most significant limb down.
RECURSIVE DivC(_, _, _, _)
DivC(a, k, i, rem) ==
    IF i = 0 THEN << >>
    ELSE LET cur == rem * Base + a[i]
         IN  DivC(a, k, i - 1, cur % k) \o << cur \div k >>

DivSmall(a, k) == Norm(DivC(a, k, Len(a), 0))

\* floor(a / 2^s).
ShiftRight(a, s) ==
    IF s \div LimbBits >= Len(a) THEN << >>
    ELSE DivSmall(SubSeq(a, s \div LimbBits + 1, Len(a)),
                  2 ^ (s % LimbBits))

RECURSIVE SmallBits(_)
SmallBits(n) == IF n = 0 THEN 0 ELSE 1 + SmallBits(n \div 2)

BitLen(a) ==
    IF a = << >> THEN 0
    ELSE (Len(a) - 1) * LimbBits + SmallBits(a[Len(a)])

\* One step of the long division by b: a zero bit is brought down into
\* the remainder and the quotient gets its next bit.
DivStep(b, quo, rem) ==
    LET r2 == MulSmall(rem, 2)
    IN  IF CmpN(r2, b) >= 0
        THEN [ quo |-> AddN(MulSmall(quo, 2), << 1 >>), rem |-> SubN(r2, b) ]
        ELSE [ quo |-> MulSmall(quo, 2), rem |-> r2 ]

\* Long division of rem * 2^n by b for rem < b, where quo is the quotient
\* so far.  Each step is evaluated before the next one starts.
RECURSIVE DivBits(_, _, _, _)
DivBits(b, n, quo, rem) ==
    IF n = 0 THEN [ quo |-> quo, exact |-> rem = << >> ]
    ELSE CHOOSE d \in { DivBits(b, n - 1, s.quo, s.rem) :
                           s \in { DivStep(b, quo, rem) } } : TRUE

\* floor(a * 2^n / b) for a and b of the same bit length, and whether
\* the division left no remainder.
DivN(a, b, n) ==
    IF CmpN(a, b) >= 0 THEN DivBits(b, n, << 1 >>, SubN(a, b))
    ELSE DivBits(b, n, << >>, a)

\* The number of trailing zero bits of a non-zero natural.
RECURSIVE SmallTrailing(_)
SmallTrailing(n) == IF n % 2 = 1 THEN 0 ELSE 1 + SmallTrailing(n \div 2)

RECURSIVE Trailing(_)
Trailing(a) ==
    IF Head(a) = 0 THEN LimbBits + Trailing(Tail(a))
    ELSE SmallTrailing(Head(a))

\* The float sign * m * 2^e, m of at most 53 bits, in its unique form.
Float(sign, m, e) ==
    IF m = << >> THEN [ sign |-> 1, m |-> << >>, e |-> 0 ]
    ELSE [ sign |-> sign, m |-> ShiftRight(m, Trailing(m)),
           e |-> e + Trailing(m) ]

\* The double nearest to sign * m * 2^e for m of more than 53 bits, of
\* which the lowest s are dropped: ties go to the even significand.
RoundOff(sign, m, e, s) ==
    LET q    == ShiftRight(m, s)
        rem  == SubN(m, ShiftLeft(q, s))
        half == CmpN(ShiftLeft(rem, 1), ShiftLeft(<< 1 >>, s))
        up   == half > 0 \/ (half = 0 /\ q # << >> /\ Head(q) % 2 = 1)
    IN  Float(sign, IF up THEN AddN(q, << 1 >>) ELSE q, e + s)

\* The double nearest to sign * m * 2^e.  The significand is evaluated
\* once, before it is rounded.
Round(sign, m, e) ==
    CHOOSE r \in { IF BitLen(n) <= Precision THEN Float(sign, n, e)
                   ELSE RoundOff(sign, n, e, BitLen(n) - Precision) :
                   n \in { m } } : TRUE

\* float(n) for a small integer n.
FromInt(n) == Float(IF n < 0 THEN -1 ELSE 1, FromNat(IF n < 0 THEN -n ELSE n), 0)

\* The exact sum of two floats, as sign, significand and exponent.
ExactSum(a, b) ==
    LET e0 == IF a.e <= b.e THEN a.e ELSE b.e
        x  == ShiftLeft(a.m, a.e - e0)
        y  == ShiftLeft(b.m, b.e - e0)
        c  == CmpN(x, y)
    IN  IF a.sign = b.sign
        THEN [ sign |-> a.sign, m |-> AddN(x, y), e |-> e0 ]
        ELSE IF c >= 0
        THEN [ sign |-> a.sign, m |-> SubN(x, y), e |-> e0 ]
        ELSE [ sign |-> b.sign, m |-> SubN(y, x), e |-> e0 ]

FAdd(a, b) == LET s == ExactSum(a, b) IN Round(s.sign, s.m, s.e)

FSub(a, b) == FAdd(a, Float(-b.sign, b.m, b.e))

FMul(a, b) == Round(a.sign * b.sign, MulN(a.m, b.m), a.e + b.e)

\* a / b for b # 0: the significands are brought to the same bit length,
\* their quotient is computed to 56 bits after the binary point with a
\* sticky bit for the remainder, and the result is rounded.
FDiv(a, b) ==
    IF a.m = << >> THEN Float(1, << >>, 0)
    ELSE LET la == BitLen(a.m)
             lb == BitLen(b.m)
             sa == IF lb > la THEN lb - la ELSE 0
             sb == IF la > lb THEN la - lb ELSE 0
         IN  CHOOSE r \in
               { Round(a.sign * b.sign,
                       AddN(MulSmall(d.quo, 2),
                            IF d.exact THEN << >> ELSE << 1 >>),
                       (a.e - sa) - (b.e - sb) - (Precision + 3) - 1) :
                 d \in { DivN(ShiftLeft(a.m, sa), ShiftLeft(b.m, sb),
                              Precision + 3) } } : TRUE

\* -1, 0 or 1 as a < b, a = b or a > b.
FCmp(a, b) ==
    LET s == ExactSum(a, Float(-b.sign, b.m, b.e))
    IN  IF s.m = << >> THEN 0 ELSE s.sign

\* int(a): truncation towards zero.
FInt(a) ==
    a.sign * ToNat(IF a.e >= 0 THEN ShiftLeft(a.m, a.e)
                   ELSE ShiftRight(a.m, -a.e))

\* ------------------------------------------------ terminal/base.py: colours
MaxStops == 4       \* colours of the longest gradient

Zero == FromInt(0)
One == FromInt(1)
Half == Float(1, << 1 >>, -1)

\* Color(rgb, hls, name, xterm): a named tuple.  The channels of rgb are
\* integers, those of hls are floats.
Color(rgb, hls, name, xterm) ==
    [ rgb |-> rgb, hls |-> hls, name |-> name, xterm |-> xterm ]

\* The value of an expression that raised.
NoColor == Color(<< >>, << >>, "", None)

\* The colours the gradients are built from.
Stops ==
    << Color(<< 255, 0, 0 >>, << FromInt(0), FromInt(100), FromInt(50) >>,
             "red", 9),
       Color(<< 0, 255, 0 >>, << FromInt(120), FromInt(100), FromInt(50) >>,
             "lime", 10),
       Color(<< 0, 0, 255 >>, << FromInt(240), FromInt(100), FromInt(50) >>,
             "blue", 12),
       Color(<< 255, 255, 255 >>, << FromInt(0), FromInt(0), FromInt(100) >>,
             "white", 15),
       Color(<< 0, 0, 0 >>, << FromInt(0), FromInt(0), FromInt(0) >>,
             "black", 0) >>

\* ColorGradient(*colors): `assert colors` admits one colour and more.
Gradients == { SubSeq(Stops, 1, n) : n \in 1 .. MaxStops }

\* c1 + (c2 - c1) * value, for floats.
Lerp(c1, c2, value) == FAdd(c1, FMul(FSub(c2, c1), value))

\* Colors.interpolate(color1, color2, value).
interpolate(color1, color2, value) ==
    IF FCmp(value, Zero) <= 0 THEN color1
    ELSE IF FCmp(value, One) >= 0 THEN color2
    ELSE Color(
           [ i \in 1 .. 3 |->
               FInt(Lerp(FromInt(color1.rgb[i]), FromInt(color2.rgb[i]),
                         value)) ],
           [ i \in 1 .. 3 |-> Lerp(color1.hls[i], color2.hls[i], value) ],
           IF FCmp(value, Half) < 0 THEN color1.name ELSE color2.name,
           IF FCmp(value, Half) < 0 THEN color1.xterm ELSE color2.xterm)

\* segment_size = 1.0 / (len(self.colors) - 1), for two colours and more.
segment_size(colors) == FDiv(One, FromInt(Len(colors) - 1))

\* segment = int(value / segment_size).
segment(colors, value) == FInt(FDiv(value, segment_size(colors)))

\* segment_value = (value - segment * segment_size) / segment_size.
segment_value(colors, value, seg) ==
    FDiv(FSub(value, FMul(FromInt(seg), segment_size(colors))),
         segment_size(colors))

\* The part of get_color that follows the computation of the segment:
\* self.interpolate(self.colors[segment], self.colors[segment + 1],
\* segment_value).  Sequences are indexed from 1 here and from 0 in the
\* source.
in_segment(colors, value, seg) ==
    IF seg + 2 > Len(colors)
    THEN [ exc |-> "IndexError", ret |-> NoColor ]
    ELSE CHOOSE r \in
           { [ exc |-> "none",
               ret |-> interpolate(colors[seg + 1], colors[seg + 2], sv) ] :
             sv \in { segment_value(colors, value, seg) } } : TRUE

\* ColorGradient.get_color(value): the colour returned, or the exception
\* raised.
get_color(colors, value) ==
    IF FCmp(value, Zero) <= 0 THEN [ exc |-> "none", ret |-> colors[1] ]
    ELSE IF FCmp(value, One) >= 0
    THEN [ exc |-> "none", ret |-> colors[Len(colors)] ]
    ELSE IF Len(colors) - 1 = 0
    THEN [ exc |-> "ZeroDivisionError", ret |-> NoColor ]
    ELSE CHOOSE r \in { in_segment(colors, value, seg) :
                          seg \in { segment(colors, value) } } : TRUE

\* ---------------------------------------------------------- apply_colors
\* What a colour slot of apply_colors holds: None, a Color, a
\* ColorGradient or a DummyColor.
NoSlot == [ kind |-> "None", color |-> NoColor, colors |-> << >> ]
ColorSlot(c) == [ kind |-> "Color", color |-> c, colors |-> << >> ]
GradientSlot(cs) == [ kind |-> "ColorGradient", color |-> NoColor, colors |-> cs ]
DummySlot == [ kind |-> "DummyColor", color |-> NoColor, colors |-> << >> ]

\* percentage is None.
NoFloat == [ sign |-> 0, m |-> << >>, e |-> 0 ]

\* fg(percentage) if isinstance(fg, ColorGradient) else fg.
slot_color(slot, pct) ==
    IF slot.kind = "ColorGradient"
    THEN CHOOSE s \in
           { [ exc |-> r.exc,
               slot |-> IF r.exc = "none" THEN ColorSlot(r.ret)
                        ELSE NoSlot ] :
             r \in { get_color(slot.colors, pct) } } : TRUE
    ELSE [ exc |-> "none", slot |-> slot ]

\* fg_color(text).  Color.__call__ returns self.fg(value), and the named
\* tuple Color has no attribute fg: the call raises AttributeError.
\* DummyColor.__call__ returns the text.
color_call(slot, text) ==
    IF slot.kind = "Color"
    THEN [ exc |-> "AttributeError", text |-> text ]
    ELSE [ exc |-> "none", text |-> text ]

\* The part of apply_colors that follows the choice of the two colours f
\* and b: the text is passed to the foreground colour and then to the
\* background colour.
apply_chosen(text, f, b) ==
    LET t1 == IF f.slot.kind # "None" THEN color_call(f.slot, text)
              ELSE [ exc |-> "none", text |-> text ]
        t2 == IF b.slot.kind # "None" THEN color_call(b.slot, t1.text)
              ELSE [ exc |-> "none", text |-> t1.text ]
    IN  IF f.exc # "none"
        THEN [ exc |-> f.exc, text |-> text,
               fg_color |-> NoSlot, bg_color |-> NoSlot ]
        ELSE IF b.exc # "none"
        THEN [ exc |-> b.exc, text |-> text,
               fg_color |-> f.slot, bg_color |-> NoSlot ]
        ELSE [ exc |-> IF t1.exc # "none" THEN t1.exc ELSE t2.exc,
               text |-> IF t1.exc # "none" \/ t2.exc # "none" THEN text
                        ELSE t2.text,
               fg_color |-> f.slot, bg_color |-> b.slot ]

\* apply_colors(text, percentage, fg=, bg=, fg_none=, bg_none=): the two
\* colours chosen, the text returned and the exception raised.
apply_colors(text, pct, fg, bg, fg_none, bg_none) ==
    IF pct = NoFloat
    THEN apply_chosen(text, [ exc |-> "none", slot |-> fg_none ],
                      [ exc |-> "none", slot |-> bg_none ])
    ELSE CHOOSE r \in
           { apply_chosen(text, f, b) :
               f \in { slot_color(fg, pct) },
               b \in { slot_color(bg, pct) } } : TRUE

\* -------------------------------------------------------- WindowsColors
\* The members of the enumeration, in definition order.
WindowsColors ==
    << [ name |-> "BLACK",           value |-> << 0, 0, 0 >> ],
       [ name |-> "BLUE",            value |-> << 0, 0, 128 >> ],
       [ name |-> "GREEN",           value |-> << 0, 128, 0 >> ],
       [ name |-> "CYAN",            value |-> << 0, 128, 128 >> ],
       [ name |-> "RED",             value |-> << 128, 0, 0 >> ],
       [ name |-> "MAGENTA",         value |-> << 128, 0, 128 >> ],
       [ name |-> "YELLOW",          value |-> << 128, 128, 0 >> ],
       [ name |-> "GREY",            value |-> << 192, 192, 192 >> ],
       [ name |-> "INTENSE_BLACK",   value |-> << 128, 128, 128 >> ],
       [ name |-> "INTENSE_BLUE",    value |-> << 0, 0, 255 >> ],
       [ name |-> "INTENSE_GREEN",   value |-> << 0, 255, 0 >> ],
       [ name |-> "INTENSE_CYAN",    value |-> << 0, 255, 255 >> ],
       [ name |-> "INTENSE_RED",     value |-> << 255, 0, 0 >> ],
       [ name |-> "INTENSE_MAGENTA", value |-> << 255, 0, 255 >> ],
       [ name |-> "INTENSE_YELLOW",  value |-> << 255, 255, 0 >> ],
       [ name |-> "INTENSE_WHITE",   value |-> << 255, 255, 255 >> ] >>

\* (r1 - r2) ** 2 + (g1 - g2) ** 2 + (b1 - b2) ** 2.  The source compares
\* the square roots of these integers; below 3 * 255^2 two different
\* integers have square roots more than a thousandth apart, so the
\* floats compare as the integers do.
distance2(rgb, value) ==
    (rgb[1] - value[1]) * (rgb[1] - value[1])
    + (rgb[2] - value[2]) * (rgb[2] - value[2])
    + (rgb[3] - value[3]) * (rgb[3] - value[3])

\* A search that keeps the last of the closest members.
RECURSIVE closest_last(_, _, _, _)
closest_last(rgb, i, min_distance, closest_color) ==
    IF i > Len(WindowsColors) THEN closest_color
    ELSE IF min_distance = None
            \/ distance2(rgb, WindowsColors[i].value) <= min_distance
    THEN closest_last(rgb, i + 1, distance2(rgb, WindowsColors[i].value),
                      WindowsColors[i].name)
    ELSE closest_last(rgb, i + 1, min_distance, closest_color)

\* The loop of from_rgb from member i on; min_distance None stands for
\* float('inf').
RECURSIVE closest(_, _, _, _)
closest(rgb, i, min_distance, closest_color) ==
    IF i > Len(WindowsColors) THEN closest_color
    ELSE IF min_distance = None
            \/ distance2(rgb, WindowsColors[i].value) < min_distance
    THEN closest(rgb, i + 1, distance2(rgb, WindowsColors[i].value),
                 WindowsColors[i].name)
    ELSE closest(rgb, i + 1, min_distance, closest_color)

\* WindowsColors.from_rgb(rgb): the name of the member returned.
from_rgb(rgb) == closest(rgb, 1, None, "None")

\* ------------------------------------------------------- Colors.register
\* A defaultdict(list) and a dict: functions from the keys present.
EmptyDict == [ k \in {} |-> << >> ]
Put(d, k, v) == [ x \in DOMAIN d \cup {k} |-> IF x = k THEN v ELSE d[x] ]
AppendTo(d, k, v) ==
    Put(d, k, Append(IF k \in DOMAIN d THEN d[k] ELSE << >>, v))

\* name.lower(), for the names registered here.
lower(name) ==
    IF name = "Red" THEN "red"
    ELSE IF name = "BLUE" THEN "blue"
    ELSE name

\* The class attributes of Colors when the class is created.
Colors ==
    [ by_name |-> EmptyDict, by_lowername |-> EmptyDict,
      by_hex |-> EmptyDict, by_rgb |-> EmptyDict, by_hls |-> EmptyDict,
      by_xterm |-> EmptyDict ]

\* A register that keeps only the last colour of a name.
register_replacing(cls, rgb, hls, name, xterm) ==
    [ cls EXCEPT
        !.by_name = Put(@, name, << Color(rgb, hls, name, xterm) >>),
        !.by_lowername = AppendTo(@, lower(name), Color(rgb, hls, name, xterm)),
        !.by_rgb = AppendTo(@, rgb, Color(rgb, hls, name, xterm)),
        !.by_hls = AppendTo(@, hls, Color(rgb, hls, name, xterm)),
        !.by_xterm = Put(@, xterm, Color(rgb, hls, name, xterm)) ]

\* Colors.register(rgb, hls, name, xterm): the indices afterwards.  The
\* call returns Color(rgb, hls, name, xterm).
register(cls, rgb, hls, name, xterm) ==
    [ cls EXCEPT
        !.by_name = AppendTo(@, name, Color(rgb, hls, name, xterm)),
        !.by_lowername = AppendTo(@, lower(name), Color(rgb, hls, name, xterm)),
        !.by_rgb = AppendTo(@, rgb, Color(rgb, hls, name, xterm)),
        !.by_hls = AppendTo(@, hls, Color(rgb, hls, name, xterm)),
        !.by_xterm = Put(@, xterm, Color(rgb, hls, name, xterm)) ]

\* ------------------------------------------------------------------ _CPR
NumCallers == 2     \* threads that query the cursor position

Callers == 1 .. NumCallers
Digits == << "0", "1", "2", "3", "4", "5", "6", "7", "8", "9" >>
Rows == { 1, 24 }
Columns == { 7, 80 }

\* str(n) for 0 <= n, as a sequence of characters.
RECURSIVE Decimal(_)
Decimal(n) ==
    IF n < 10 THEN << Digits[n + 1] >>
    ELSE Append(Decimal(n \div 10), Digits[(n % 10) + 1])

\* The terminal's reply to the request: ESC [ row ; column R.
Reply(row, column) ==
    << "ESC", "[" >> \o Decimal(row) \o << ";" >> \o Decimal(column)
    \o << "R" >>

\* getch() of terminal.os_specific: the next character of the input, and
\* None when the input holds none.
getch(inp) == IF inp = << >> THEN [ ch |-> "None", to |-> 0 ] ELSE Head(inp)

\* res.endswith('R').
EndsWithR(res) == res # << >> /\ res[Len(res)] = "R"

\* int(item), for an item of digits.
RECURSIVE ToInt(_)
ToInt(item) ==
    IF item = << >> THEN 0
    ELSE 10 * ToInt(SubSeq(item, 1, Len(item) - 1))
         + (CHOOSE d \in 0 .. 9 : Digits[d + 1] = item[Len(item)])

\* s.split(';').
RECURSIVE Split(_, _)
Split(s, item) ==
    IF s = << >> THEN << item >>
    ELSE IF Head(s) = ";" THEN << item >> \o Split(Tail(s), << >>)
    ELSE Split(Tail(s), Append(item, Head(s)))

\* int(item) if item.isdigit() else item.
Item(item) ==
    IF item # << >>
       /\ \A i \in DOMAIN item : \E d \in DOMAIN Digits : item[i] = Digits[d]
    THEN [ int |-> TRUE, n |-> ToInt(item), s |-> << >> ]
    ELSE [ int |-> FALSE, n |-> None, s |-> item ]

\* A result whose items stay the strings they were read as.
cpr_result_strings(res) ==
    LET res_list == Split(SubSeq(res, 3, Len(res) - 1), << >>)
    IN  [ i \in DOMAIN res_list |->
            [ int |-> FALSE, n |-> None, s |-> res_list[i] ] ]

\* The value _CPR.__call__ returns for the characters read: the items of
\* res[2:-1].split(';').  A single item is returned as itself and stands
\* here as the sequence of that one item.
cpr_result(res) ==
    LET res_list == Split(SubSeq(res, 3, Len(res) - 1), << >>)
    IN  [ i \in DOMAIN res_list |-> Item(res_list[i]) ]

\* ---------------------------------- algorithms.ExponentialMovingAverage
MaxUpdates == 10    \* updates of one average

\* ExponentialMovingAverage(alpha): self.alpha = alpha, self.value = 0.
ExponentialMovingAverage(alpha) == [ alpha |-> alpha, value |-> Zero ]

\* An update that weighs the new value by the elapsed time.
ema_update_elapsed(self, new_value, elapsed) ==
    [ self EXCEPT
        !.value = FAdd(FMul(FMul(self.alpha, FromInt(elapsed)), new_value),
                       FMul(FSub(One, self.alpha), self.value)) ]

\* ExponentialMovingAverage.update(new_value, elapsed): the object
\* afterwards; the call returns self.value.
ema_update(self, new_value, elapsed) ==
    [ self EXCEPT
        !.value = FAdd(FMul(self.alpha, new_value),
                       FMul(FSub(One, self.alpha), self.value)) ]

\* ------------------------------------------- ResizableMixin._handle_resize
\* What get_terminal_size() does: it returns a width or raises.
SizeQueries ==
    { [ exc |-> "OSError", width |-> 0 ], [ exc |-> "ImportError", width |-> 0 ],
      [ exc |-> "none", width |-> 0 ], [ exc |-> "none", width |-> 40 ],
      [ exc |-> "none", width |-> 120 ] }

\* A handler that takes every width the query reports.
handle_resize_any_width(b, size) ==
    IF size.exc # "none" THEN b
    ELSE [ b EXCEPT !.term_width = size.width ]

\* ResizableMixin._handle_resize(signum, frame).
handle_resize(b, size) ==
    IF size.exc # "none" THEN b
    ELSE IF size.width # 0 THEN [ b EXCEPT !.term_width = size.width ]
    ELSE b

\* ----------------------------------------------------- ProgressBar.__exit__
\* self.finish(dirty=bool(exc_type)).
exit(b, exc_type) == finish(b, exc_type # "None")

\* ------------------------------------------------ ProgressBar.percentage
\* isinstance(self.max_value, base.UnknownLength): max_value holds the
\* class UnknownLength itself (bar.py:44, 304, 467), and a class is not an
\* instance of itself.
isinstance_UnknownLength(x) == FALSE

\* A percentage that does not subtract min_value from the value.
percentage_from_zero(b) ==
    IF ~hasattr(b, "max_value")
    THEN [ exc |-> "AttributeError", kind |-> "raise", value |-> NoFloat ]
    ELSE IF b.max_value = None \/ isinstance_UnknownLength(b.max_value)
    THEN [ exc |-> "none", kind |-> "None", value |-> NoFloat ]
    ELSE IF ~hasattr(b, "min_value")
    THEN [ exc |-> "AttributeError", kind |-> "raise", value |-> NoFloat ]
    ELSE IF b.max_value = UnknownLength
    THEN [ exc |-> "TypeError", kind |-> "raise", value |-> NoFloat ]
    ELSE IF b.max_value - b.min_value = 0
    THEN [ exc |-> "none", kind |-> "float", value |-> FromInt(100) ]
    ELSE IF ~hasattr(b, "value")
    THEN [ exc |-> "AttributeError", kind |-> "raise", value |-> NoFloat ]
    ELSE [ exc |-> "none", kind |-> "float",
           value |-> FMul(FDiv(FromInt(b.value),
                               FromInt(b.max_value - b.min_value)),
                          FromInt(100)) ]

\* The property's outcome: None, an AttributeError (an attribute read
\* before it was assigned), a TypeError (the class UnknownLength minus a
\* number), or the float (current_pos / total_range) * 100.0.
percentage(b) ==
    IF ~hasattr(b, "max_value")
    THEN [ exc |-> "AttributeError", kind |-> "raise", value |-> NoFloat ]
    ELSE IF b.max_value = None \/ isinstance_UnknownLength(b.max_value)
    THEN [ exc |-> "none", kind |-> "None", value |-> NoFloat ]
    ELSE IF ~hasattr(b, "min_value")
    THEN [ exc |-> "AttributeError", kind |-> "raise", value |-> NoFloat ]
    ELSE IF b.max_value = UnknownLength
    THEN [ exc |-> "TypeError", kind |-> "raise", value |-> NoFloat ]
    ELSE IF b.max_value - b.min_value = 0
    THEN [ exc |-> "none", kind |-> "float", value |-> FromInt(100) ]
    ELSE IF ~hasattr(b, "value")
    THEN [ exc |-> "AttributeError", kind |-> "raise", value |-> NoFloat ]
    ELSE [ exc |-> "none", kind |-> "float",
           value |-> FMul(FDiv(FromInt(b.value - b.min_value),
                               FromInt(b.max_value - b.min_value)),
                          FromInt(100)) ]

\* ------------------------------------------------------------------ state
VARIABLES
    bar,        \* the ProgressBar object's fields
    now,        \* the wall clock, in ticks
    alive,      \* FALSE once the destructor has run
    calls,      \* the operations invoked on the bar so far: [op, by]
    nexts,      \* retrievals (__next__) since the last __call__
    wrapped,    \* the sequence given to the last __call__
    returned,   \* the items the retrievals returned since the last __call__
    last,       \* the operation executed last: its arguments, the bar and
                \* the number of logged calls before it, and its outcome
    registry,   \* the indices of the class Colors, and the colours
                \* registered so far
    cpr,        \* the cursor-position query: its lock, its callers, the
                \* stream written and the input to be read
    ema         \* an ExponentialMovingAverage and what it was fed

vars == << bar, now, alive, calls, nexts, wrapped, returned, last,
           registry, cpr, ema >>

\* The state outside the bar.
others == << registry, cpr, ema >>

\* A caller of the query is idle, holds the lock ("locked"), has written
\* the request ("written"), reads the reply ("reading"), or has left the
\* call ("returned", "raised").
OthersInit ==
    /\ registry = [ cls |-> Colors, registered |-> << >> ]
    /\ cpr = [ lock    |-> 0,
               pc      |-> [ t \in Callers |-> "idle" ],
               res     |-> [ t \in Callers |-> << >> ],
               ret     |-> [ t \in Callers |-> << >> ],
               took    |-> [ t \in Callers |-> {} ],
               out     |-> << >>,
               buf     |-> << >>,
               pending |-> << >>,
               inp     |-> << >> ]
    /\ ema = [ self |-> ExponentialMovingAverage(Half), n |-> 0,
               first |-> NoFloat, constant |-> TRUE, previous |-> NoFloat ]

NoArgs == [ value |-> None, force |-> FALSE, dirty |-> FALSE,
            variables |-> None ]

Did(op, pre, args, exc, made) ==
    [ op |-> op, pre |-> pre, t |-> now, n |-> Len(calls),
      value |-> args.value,
      force |-> args.force, dirty |-> args.dirty,
      variables |-> args.variables, exc |-> exc, made |-> made ]

Logged(op, by) == Append(calls, [ op |-> op, by |-> by ])

\* The constructor's arguments, with the two intervals left at their
\* defaults.
CtorArgs ==
    [ min_value : {0, 1}, max_value : {None, 0, MaxValue},
      poll_interval : {None}, min_poll_interval : {None},
      max_error : BOOLEAN ]

\* An instance is allocated and the constructor is applied to it: it
\* raises, and the instance is left as it was allocated.
Init ==
    /\ \E a \in CtorArgs :
          LET r == ProgressBar(a.min_value, a.max_value, 0, a.poll_interval,
                               a.min_poll_interval, a.max_error, 0)
          IN  /\ bar = r.bar
              /\ last = [ op |-> "construct", pre |-> r.bar, t |-> 0,
                          n |-> 0, value |-> None, force |-> FALSE,
                          dirty |-> FALSE, variables |-> None,
                          exc |-> r.exc, made |-> "none" ]
    /\ now = 0
    /\ alive = TRUE
    /\ calls = << >>
    /\ nexts = 0
    /\ wrapped = << >>
    /\ returned = << >>
    /\ OthersInit

\* bar.<name> = value, before the first call of a method: the
\* assignments a program makes to an instance the constructor has not
\* filled in, which are those of bar.py:322-335 and start_time, in the
\* constructor's order, with the value init() gives (min_value), no start
\* time and no iterable.
Assign ==
    /\ alive /\ calls = << >> /\ nexts = 0 /\ ~hasattr(bar, "_iterable")
    /\ \E a \in
          IF ~hasattr(bar, "min_value")
          THEN { << "min_value", v >> : v \in {0, 1} }
          ELSE IF ~hasattr(bar, "max_value")
          THEN { << "max_value", v >> : v \in {None, MaxValue} }
          ELSE IF ~hasattr(bar, "max_error")
          THEN { << "max_error", e >> : e \in BOOLEAN }
          ELSE IF ~hasattr(bar, "value")
          THEN { << "value", bar.min_value >> }
          ELSE IF ~hasattr(bar, "start_time")
          THEN { << "start_time", None >> }
          ELSE { << "_iterable", None >> } :
          bar' = IF a[1] = "_iterable"
                 THEN [ bar EXCEPT !.has_iterable = FALSE,
                                   !.iterable = << >>,
                                   !.dict = @ \cup { "_iterable" } ]
                 ELSE setattr(bar, a[1], a[2])
    /\ last' = Did("setattr", bar, NoArgs, "none", "none")
    /\ UNCHANGED << now, alive, calls, nexts, wrapped, returned, others >>

\* bar.last_update_time = time.time(), or bar.set_last_update_time(None).
SetLastUpdateTime ==
    /\ alive /\ calls = << >> /\ nexts = 0 /\ ~hasattr(bar, "_iterable")
    /\ hasattr(bar, "start_time")
    /\ \E value \in { None, now } :
          bar' = set_last_update_time(bar, value)
    /\ last' = Did("set_last_update_time", bar, NoArgs, "none", "none")
    /\ UNCHANGED << now, alive, calls, nexts, wrapped, returned, others >>

Tick ==
    /\ now < MaxTime
    /\ now' = now + 1
    /\ UNCHANGED << bar, alive, calls, nexts, wrapped, returned, last,
                    others >>

DoInit ==
    /\ alive /\ Len(calls) < MaxCalls
    /\ bar' = init(bar).bar
    /\ calls' = Logged("init", "user")
    /\ last' = Did("init", bar, NoArgs, init(bar).exc, "none")
    /\ UNCHANGED << now, alive, nexts, wrapped, returned, others >>

Start ==
    /\ alive /\ Len(calls) < MaxCalls
    /\ bar' = start(bar, None)
    /\ calls' = Logged("start", "user")
    /\ last' = Did("start", bar, NoArgs, "none", "none")
    /\ UNCHANGED << now, alive, nexts, wrapped, returned, others >>

Update ==
    /\ alive /\ Len(calls) < MaxCalls
    /\ \E v \in Values \cup {MaxValue + 1}, force \in BOOLEAN,
          var \in {None, 1} :
          /\ bar' = update(bar, v, force, var)
          /\ last' = Did("update", bar,
                         [ value |-> v, force |-> force, dirty |-> FALSE,
                           variables |-> var ], "none", "none")
    /\ calls' = Logged("update", "user")
    /\ UNCHANGED << now, alive, nexts, wrapped, returned, others >>

Finish ==
    /\ alive /\ Len(calls) < MaxCalls
    /\ \E dirty \in BOOLEAN :
          /\ bar' = finish(bar, dirty)
          /\ last' = Did("finish", bar, [ NoArgs EXCEPT !.dirty = dirty ],
                         "none", "none")
    /\ calls' = Logged("finish", "user")
    /\ UNCHANGED << now, alive, nexts, wrapped, returned, others >>

Call ==
    /\ alive /\ nexts = 0 /\ ~bar.has_iterable
    /\ \E it \in Iterables, has_len \in BOOLEAN :
          LET r == call(bar, it, has_len, None)
          IN  /\ bar' = r.bar
              /\ wrapped' = IF r.exc = "none" THEN it ELSE wrapped
              /\ last' = Did("__call__", bar, NoArgs, r.exc, "none")
    /\ nexts' = 0
    /\ returned' = << >>
    /\ UNCHANGED << now, alive, calls, others >>

Next_ ==
    /\ alive /\ Len(calls) < MaxCalls /\ nexts < MaxCalls
    /\ LET r == next(bar) IN
          /\ bar' = r.bar
          /\ calls' = IF r.made = "none" THEN calls
                       ELSE Logged(r.made, "__next__")
          /\ returned' = IF r.exc = "none" THEN Append(returned, r.item)
                         ELSE returned
          /\ last' = Did("__next__", bar, NoArgs, r.exc, r.made)
    /\ nexts' = nexts + 1
    /\ UNCHANGED << now, alive, wrapped, others >>

\* The wrapped iterator raises GeneratorExit from its next().
NextGeneratorExit ==
    /\ alive /\ Len(calls) < MaxCalls
    /\ bar.has_iterable /\ bar.iterable # << >>
    /\ \E generator \in BOOLEAN :
          LET r == next_generator_exit(bar, generator) IN
          /\ bar' = r.bar
          /\ calls' = Logged(r.made, "__next__")
          /\ last' = Did("__next__", bar, [ NoArgs EXCEPT !.dirty = TRUE ],
                         r.exc, r.made)
    /\ nexts' = nexts + 1
    /\ UNCHANGED << now, alive, wrapped, returned, others >>

\* The consumer leaves its loop before the wrapped sequence is exhausted:
\* it stops calling __next__, and no code of the bar runs.
Abandon ==
    /\ alive /\ bar.has_iterable /\ bar.iterable # << >>
    /\ nexts >= 1 /\ last.op = "__next__" /\ last.exc = "none"
    /\ last' = Did("abandon", bar, NoArgs, "none", "none")
    /\ UNCHANGED << bar, now, alive, calls, nexts, wrapped, returned, others >>

Iadd ==
    /\ alive /\ Len(calls) < MaxCalls
    /\ \E delta \in 1 .. MaxValue :
          LET r == iadd(bar, delta) IN
          /\ bar' = r.bar
          /\ last' = Did("__iadd__", bar, [ NoArgs EXCEPT !.value = delta ],
                         r.exc, "none")
    /\ calls' = Logged("__iadd__", "user")
    /\ UNCHANGED << now, alive, nexts, wrapped, returned, others >>

Del ==
    /\ alive
    /\ alive' = FALSE
    /\ bar' = IF del_finishes(bar) THEN finish(bar, FALSE) ELSE bar
    /\ calls' = IF del_finishes(bar) THEN Logged("finish", "__del__")
                ELSE calls
    /\ last' = Did("__del__", bar, NoArgs, "none",
                   IF del_finishes(bar) THEN "finish" ELSE "none")
    /\ UNCHANGED << now, nexts, wrapped, returned, others >>

Next ==
    \/ Tick \/ Assign \/ SetLastUpdateTime \/ DoInit \/ Start \/ Update
    \/ Finish \/ Call \/ Next_ \/ Del \/ NextGeneratorExit \/ Abandon \/ Iadd

Spec == Init /\ [][Next]_vars

\* ------------------------------------ the functions applied one at a time
\* A second specification: the module is imported (from_env computes
\* COLOR_SUPPORT), the colour request is resolved, the constructor is
\* applied to an instance with a wider range of arguments, the value and
\* the bounds are assigned as in the doctest of percentage, and
\* percentage is read.  `last.pre` is the bar an operation was applied
\* to; for a construction and an assignment it is the bar they produce.
Applied(op, pre, exc, in, ret) ==
    Did(op, pre, NoArgs, exc, "none") @@ [ in |-> in, ret |-> ret ]

\* An instance is allocated; no attribute of it is assigned.
InitFn ==
    /\ bar = new
    /\ now = 0
    /\ alive = TRUE
    /\ calls = << >>
    /\ nexts = 0
    /\ wrapped = << >>
    /\ returned = << >>
    /\ last = Applied("none", bar, "none", 0, 0)
    /\ OthersInit

FromEnv ==
    /\ last.op = "none"
    /\ \E jupyter \in BOOLEAN, term \in TermStrings,
          colorterm \in TermStrings, color \in TermStrings :
          last' = Applied("from_env", bar, "none",
                          [ jupyter |-> jupyter, term |-> term,
                            colorterm |-> colorterm, color |-> color ],
                          from_env(jupyter, term, colorterm, color))
    /\ UNCHANGED << bar, now, alive, calls, nexts, wrapped, returned, others >>

\* COLOR_SUPPORT is what from_env returned when the module was imported.
DetermineEnableColors ==
    /\ last.op = "from_env"
    /\ \E enable_colors \in Requests, enable_raw \in FlagStrings,
          force_raw \in FlagStrings, is_ansi_terminal \in BOOLEAN :
          LET r == determine_enable_colors(enable_colors, enable_raw,
                       force_raw, is_ansi_terminal, last.ret)
          IN  last' = Applied("determine_enable_colors", bar, r.exc,
                              [ enable_colors |-> enable_colors,
                                enable_raw |-> enable_raw,
                                force_raw |-> force_raw,
                                is_ansi_terminal |-> is_ansi_terminal,
                                COLOR_SUPPORT |-> last.ret ],
                              r.ret)
    /\ UNCHANGED << bar, now, alive, calls, nexts, wrapped, returned, others >>

Construct ==
    /\ last.op = "none"
    /\ \E a \in [ min_value : {0, 1}, max_value : {None} \cup Values,
                   initial_value : {0, MaxValue},
                   poll_interval : {None, 3},
                   min_poll_interval : {None, 0, 2},
                   max_error : BOOLEAN, env_interval : {0, 1, 3} ] :
          LET r == ProgressBar(a.min_value, a.max_value, a.initial_value,
                               a.poll_interval, a.min_poll_interval,
                               a.max_error, a.env_interval)
          IN  /\ bar' = r.bar
              /\ last' = Applied("construct", r.bar, r.exc, a, 0)
    /\ nexts' = 0
    /\ wrapped' = << >>
    /\ returned' = << >>
    /\ UNCHANGED << now, alive, calls, others >>

\* progress.value = x, progress.min_value = x, progress.max_value = x,
\* progress.last_update_time = x.
SetAttr ==
    /\ last.op \notin {"none", "from_env", "determine_enable_colors"}
    /\ \/ \E x \in 0 .. MaxValue + 1 : bar' = setattr(bar, "value", x)
       \/ \E x \in 0 .. MaxValue + 1 :
             bar' = setattr(bar, "min_value", x)
       \/ \E x \in (0 .. MaxValue + 1) \cup {None} :
             bar' = setattr(bar, "max_value", x)
       \/ \E x \in {None, 1} : bar' = set_last_update_time(bar, x)
    /\ last' = Applied("setattr", bar', "none", 0, 0)
    /\ UNCHANGED << now, alive, calls, nexts, wrapped, returned, others >>

Percentage ==
    /\ last.op \notin {"none", "from_env", "determine_enable_colors"}
    /\ last' = Applied("percentage", bar, percentage(bar).exc, 0,
                       percentage(bar))
    /\ UNCHANGED << bar, now, alive, calls, nexts, wrapped, returned, others >>

CallFn ==
    /\ last.op \notin {"none", "from_env", "determine_enable_colors"}
    /\ alive /\ nexts = 0 /\ ~bar.has_iterable
    /\ \E it \in Iterables, has_len \in BOOLEAN :
          LET r == call(bar, it, has_len, None)
          IN  /\ bar' = r.bar
              /\ wrapped' = IF r.exc = "none" THEN it ELSE wrapped
              /\ last' = Applied("__call__", bar, r.exc, 0, 0)
    /\ nexts' = 0
    /\ returned' = << >>
    /\ UNCHANGED << now, alive, calls, others >>

NextFn ==
    \/ FromEnv \/ DetermineEnableColors \/ Construct \/ SetAttr
    \/ Percentage \/ CallFn

SpecFn == InitFn /\ [][NextFn]_vars

\* --------------------------------------- the colours, applied one at a time
\* A third specification, of progressbar.terminal.base: a gradient is
\* evaluated, colours are applied to a text, an RGB triple is mapped to
\* the Windows palette, and colours are registered one after another.
ChannelStep == 32   \* distance between the channel values tried
MaxRegistered == 3  \* calls of Colors.register

barvars == << bar, now, alive, calls, nexts, wrapped, returned >>

\* The values a gradient is evaluated at: p/q around [0, 1] and the
\* largest float below 1.
Points ==
    { FDiv(FromInt(p), FromInt(q)) : p \in -1 .. MaxStops + 1,
                                     q \in 1 .. MaxStops }
    \cup { FSub(One, Float(1, << 1 >>, -53)) }

Percentages == { NoFloat, FromInt(0), FromInt(25), FromInt(50), FromInt(100) }

Slots ==
    { NoSlot, DummySlot, ColorSlot(Stops[MaxStops]),
      GradientSlot(SubSeq(Stops, 1, 2)), GradientSlot(SubSeq(Stops, 1, 3)) }

Channels == { c \in 0 .. 255 : c % ChannelStep = 0 } \cup { 255 }

RegisterArgs ==
    [ rgb : { << 255, 0, 0 >>, << 0, 0, 255 >> }, name : { "Red", "red", "BLUE" },
      xterm : { 9, 12 } ]

GetColor ==
    /\ last.op = "none"
    /\ \E colors \in Gradients, value \in Points :
          LET r == get_color(colors, value)
          IN  last' = Applied("get_color", bar, r.exc,
                              [ colors |-> colors, value |-> value ], r.ret)
    /\ UNCHANGED << barvars, others >>

ApplyColors ==
    /\ last.op = "none"
    /\ \E pct \in Percentages, fg \in Slots, bg \in Slots,
          fg_none \in { NoSlot, DummySlot }, bg_none \in { NoSlot, DummySlot } :
          LET r == apply_colors("text", pct, fg, bg, fg_none, bg_none)
          IN  last' = Applied("apply_colors", bar, r.exc,
                              [ percentage |-> pct, fg |-> fg, bg |-> bg,
                                fg_none |-> fg_none, bg_none |-> bg_none ],
                              r)
    /\ UNCHANGED << barvars, others >>

FromRgb ==
    /\ last.op = "none"
    /\ \E r \in Channels, g \in Channels, b \in Channels :
          last' = Applied("from_rgb", bar, "none", << r, g, b >>,
                          from_rgb(<< r, g, b >>))
    /\ UNCHANGED << barvars, others >>

Register ==
    /\ last.op \in { "none", "register" }
    /\ Len(registry.registered) < MaxRegistered
    /\ \E a \in RegisterArgs :
          LET hls == << FromInt(0), FromInt(100), FromInt(50) >>
          IN  /\ registry' =
                   [ cls |-> register(registry.cls, a.rgb, hls, a.name,
                                      a.xterm),
                     registered |-> Append(registry.registered,
                                       Color(a.rgb, hls, a.name, a.xterm)) ]
              /\ last' = Applied("register", bar, "none", a,
                                 Color(a.rgb, hls, a.name, a.xterm))
    /\ UNCHANGED << barvars, cpr, ema >>

NextColor == GetColor \/ ApplyColors \/ FromRgb \/ Register

SpecColor == InitFn /\ [][NextColor]_vars

\* ------------------------------------------- the cursor-position query
\* A fourth specification: NumCallers threads call the one _CPR object,
\* each once, and the terminal answers the requests it has received.
\* with self._response_lock: the lock is acquired when it is free.
Acquire(t) ==
    /\ cpr.pc[t] = "idle" /\ cpr.lock = 0
    /\ cpr' = [ cpr EXCEPT !.lock = t, !.pc[t] = "locked" ]
    /\ UNCHANGED << barvars, last, registry, ema >>

\* stream.write(str(self)): the stream is a buffered text stream, which
\* holds what is written until it is flushed.
Write(t) ==
    /\ cpr.pc[t] = "locked"
    /\ cpr' = [ cpr EXCEPT !.out = Append(@, t), !.buf = Append(@, t),
                           !.pc[t] = "written" ]
    /\ UNCHANGED << barvars, last, registry, ema >>

\* stream.write raises (the stream is closed): the with statement
\* releases the lock and the exception leaves the call.
WriteRaises(t) ==
    /\ cpr.pc[t] = "locked"
    /\ cpr' = [ cpr EXCEPT !.lock = 0, !.pc[t] = "raised" ]
    /\ UNCHANGED << barvars, last, registry, ema >>

\* stream.flush(): what the stream holds reaches the terminal, which is
\* the caller's request and, before it, every request an earlier flush
\* failed to send.
Flush(t) ==
    /\ cpr.pc[t] = "written"
    /\ cpr' = [ cpr EXCEPT !.pending = @ \o cpr.buf, !.buf = << >>,
                           !.pc[t] = "reading" ]
    /\ UNCHANGED << barvars, last, registry, ema >>

\* stream.flush() raises (a buffered stream reports a failure of the
\* device at its flush): the stream keeps the request, which the next
\* flush that succeeds sends, the with statement releases the lock and
\* the exception leaves the call.
FlushRaises(t) ==
    /\ cpr.pc[t] = "written"
    /\ cpr' = [ cpr EXCEPT !.lock = 0, !.pc[t] = "raised" ]
    /\ UNCHANGED << barvars, last, registry, ema >>

\* The terminal answers the oldest request: the characters of its reply
\* join the input, each marked with the caller whose request it answers.
TerminalReplies ==
    /\ cpr.pending # << >>
    /\ \E row \in Rows, column \in Columns :
          cpr' = [ cpr EXCEPT
                     !.pending = Tail(@),
                     !.inp = @ \o [ i \in DOMAIN Reply(row, column) |->
                                      [ ch |-> Reply(row, column)[i],
                                        to |-> Head(cpr.pending) ] ] ]
    /\ UNCHANGED << barvars, last, registry, ema >>

\* One round of `while not res.endswith('R')`: getch() returns the next
\* character of the input, or None when there is none.
Getch(t) ==
    /\ cpr.pc[t] = "reading" /\ ~EndsWithR(cpr.res[t])
    /\ LET char == getch(cpr.inp)
       IN  IF char.ch = "None" THEN cpr' = cpr
           ELSE cpr' = [ cpr EXCEPT
                           !.inp = Tail(@),
                           !.res[t] = Append(@, char.ch),
                           !.took[t] = @ \cup { char.to } ]
    /\ UNCHANGED << barvars, last, registry, ema >>

\* The loop is left, the reply is split, the value is returned and the
\* with statement releases the lock.
Return(t) ==
    /\ cpr.pc[t] = "reading" /\ EndsWithR(cpr.res[t])
    /\ cpr' = [ cpr EXCEPT !.ret[t] = cpr_result(cpr.res[t]),
                           !.lock = 0, !.pc[t] = "returned" ]
    /\ UNCHANGED << barvars, last, registry, ema >>

NextCPR ==
    \/ \E t \in Callers : Acquire(t)
    \/ \E t \in Callers : Write(t)
    \/ \E t \in Callers : WriteRaises(t)
    \/ \E t \in Callers : Flush(t)
    \/ \E t \in Callers : FlushRaises(t)
    \/ TerminalReplies
    \/ \E t \in Callers : Getch(t)
    \/ \E t \in Callers : Return(t)

SpecCPR == InitFn /\ [][NextCPR]_vars

\* Every caller that can take a step eventually takes one; the terminal
\* is under no obligation to answer.
FairCPR ==
    \A t \in Callers :
        /\ WF_vars(Acquire(t)) /\ WF_vars(Write(t)) /\ WF_vars(Flush(t))
        /\ WF_vars(Getch(t) /\ cpr' # cpr) /\ WF_vars(Return(t))

SpecCPRFair == SpecCPR /\ FairCPR

\* ------------------------------------------- the exponential moving average
\* A fifth specification: an average is created and updated.
Alphas == { Half, FDiv(FromInt(99), FromInt(100)) }
Inputs == { FromInt(10), FDiv(FromInt(17), FromInt(10)) }
Elapsed == { 0, 1 }

NewAverage ==
    /\ ema.n = 0 /\ last.op = "none"
    /\ \E alpha \in Alphas :
          /\ ema' = [ ema EXCEPT !.self = ExponentialMovingAverage(alpha) ]
          /\ last' = Applied("ExponentialMovingAverage", bar, "none", alpha,
                             Zero)
    /\ UNCHANGED << barvars, registry, cpr >>

EmaUpdate ==
    /\ ema.n < MaxUpdates
    /\ \E new_value \in Inputs, elapsed \in Elapsed :
          LET after == ema_update(ema.self, new_value, elapsed)
          IN  /\ ema' = [ self |-> after, n |-> ema.n + 1,
                          first |-> IF ema.n = 0 THEN new_value
                                    ELSE ema.first,
                          constant |-> ema.constant
                                       /\ (ema.n = 0 \/ ema.first = new_value),
                          previous |-> ema.self.value ]
              /\ last' = Applied("ema_update", bar, "none",
                                 [ new_value |-> new_value,
                                   elapsed |-> elapsed ],
                                 after.value)
    /\ UNCHANGED << barvars, registry, cpr >>

NextEma == NewAverage \/ EmaUpdate

SpecEma == InitFn /\ [][NextEma]_vars

\* ------------------------------------- resizing and the with statement
\* A sixth specification: a bar is started, updated and finished while
\* the terminal is resized, inside or outside a with statement.
\* The constructor raises before ResizableMixin.__init__ is reached: the
\* instance has the class's term_width, and _handle_resize runs when it
\* is called.
InitHandlers ==
    /\ \E a \in CtorArgs :
          LET r == ProgressBar(a.min_value, a.max_value, 0, a.poll_interval,
                               a.min_poll_interval, a.max_error, 0)
          IN  /\ bar = r.bar
              /\ last = [ op |-> "construct", pre |-> r.bar, t |-> 0,
                          n |-> 0, value |-> None, force |-> FALSE,
                          dirty |-> FALSE, variables |-> None,
                          exc |-> r.exc, made |-> "none",
                          size |-> [ exc |-> "none", width |-> 0 ] ]
    /\ now = 0
    /\ alive = TRUE
    /\ calls = << >>
    /\ nexts = 0
    /\ wrapped = << >>
    /\ returned = << >>
    /\ OthersInit

\* The signal SIGWINCH arrives and the handler queries the terminal.
HandleResize ==
    /\ alive
    /\ \E size \in SizeQueries :
          /\ bar' = handle_resize(bar, size)
          /\ last' = Did("_handle_resize", bar, NoArgs, "none", "none")
                     @@ [ size |-> size ]
    /\ UNCHANGED << now, alive, calls, nexts, wrapped, returned, others >>

\* with bar: __enter__ returns the bar.
Enter ==
    /\ alive /\ Len(calls) < MaxCalls
    /\ \A i \in DOMAIN calls : calls[i].op # "__enter__"
    /\ calls' = Logged("__enter__", "user")
    /\ last' = Did("__enter__", bar, NoArgs, "none", "none")
    /\ UNCHANGED << bar, now, alive, nexts, wrapped, returned, others >>

\* The with-block is left, normally or by an exception: __exit__ calls
\* finish(dirty=bool(exc_type)).
Exit ==
    /\ alive /\ Len(calls) < MaxCalls
    /\ \E i \in DOMAIN calls : calls[i].op = "__enter__"
    /\ \A i \in DOMAIN calls : calls[i].by # "__exit__"
    /\ \E exc_type \in { "None", "ValueError" } :
          /\ bar' = exit(bar, exc_type)
          /\ last' = Did("__exit__", bar,
                         [ NoArgs EXCEPT !.dirty = exc_type # "None" ],
                         exc_type, "finish")
    /\ calls' = Logged("finish", "__exit__")
    /\ UNCHANGED << now, alive, nexts, wrapped, returned, others >>

NextHandlers ==
    \/ Assign \/ Start \/ Update \/ Finish
    \/ HandleResize \/ Enter \/ Exit

SpecHandlers == InitHandlers /\ [][NextHandlers]_vars

\* ------------------------------------------------ the claims' vocabulary
\* The calls logged before the operation executed last.
Prior == SubSeq(calls, 1, last.n)

\* The lifecycle the specification assigns to a history of calls:
\* init() gives an unstarted bar, start() a running one, finish() on a
\* running or finished bar a finished one, and update() leaves the
\* lifecycle where it is.
RECURSIVE Phase(_)
Phase(log) ==
    IF log = << >> THEN "unstarted"
    ELSE LET c == log[Len(log)] IN
         CASE c.op = "init"   -> "unstarted"
           [] c.op = "start"  -> "running"
           [] c.op = "finish" ->
                IF Phase(SubSeq(log, 1, Len(log) - 1)) = "unstarted"
                THEN "unstarted" ELSE "finished"
           [] OTHER           -> Phase(SubSeq(log, 1, Len(log) - 1))

\* No update has been logged since the most recent start.
RECURSIVE NoUpdateSinceStart(_)
NoUpdateSinceStart(log) ==
    IF log = << >> THEN TRUE
    ELSE LET c == log[Len(log)] IN
         CASE c.op = "start"  -> TRUE
           [] c.op = "update" -> FALSE
           [] OTHER -> NoUpdateSinceStart(SubSeq(log, 1, Len(log) - 1))

Ops(log) == [ i \in DOMAIN log |-> log[i].op ]

\* Every attribute the methods of the bar read has been assigned to b.
Prepared(b) ==
    { "min_value", "max_value", "max_error", "value", "start_time" }
        \subseteq b.dict
ByNext == \A i \in DOMAIN calls : calls[i].by = "__next__"
Concrete(m) == m >= 0

\* The operation executed last wrote exactly one line, showing v.
Redrew == Len(bar.fd) = Len(last.pre.fd) + 1
RedrewShowing(v) == bar.fd = Append(last.pre.fd, v)
WroteNothing == bar.fd = last.pre.fd

\* The governing interval: the larger of poll_interval (when configured)
\* and min_poll_interval.
Interval(b) ==
    Max(IF b.poll_interval = None THEN 0 ELSE b.poll_interval,
        b.min_poll_interval)

Due ==
    \/ last.force
    \/ NoUpdateSinceStart(Prior)
    \/ last.value = bar.max_value
    \/ /\ last.pre.last_update_time # None
       /\ last.t - last.pre.last_update_time >= Interval(last.pre)

\* ------------------------------------------------------------------- C1
\* C1: on a started bar, update(value, force) redraws exactly when force
\* is true, or it is the first update since start, or the value equals
\* max_value, or at least max(poll_interval, min_poll_interval) has elapsed
\* since last_update_time.
C1_RedrawExactlyWhenDue ==
    (last.op = "update" /\ Prepared(last.pre) /\ Phase(Prior) = "running")
        => /\ Redrew <=> Due
           /\ ~Redrew => WroteNothing

\* ------------------------------------------------------------------- C2
\* C2: a throttled update still records the new value and the named user
\* variables, writes nothing, and leaves the update counter and
\* last_update_time unchanged.
C2_ThrottledUpdateRecords ==
    (last.op = "update" /\ Prepared(last.pre)
       /\ Phase(Prior) = "running" /\ ~Due
       /\ (Concrete(last.pre.max_value) => last.value <= last.pre.max_value))
        => /\ bar.value = last.value
           /\ (last.variables # None => bar.variables = last.variables)
           /\ WroteNothing
           /\ bar.num_intervals = last.pre.num_intervals
           /\ bar.last_update_time = last.pre.last_update_time

\* ------------------------------------------------------------------- C3
\* C3: with a concrete max_value, update(v) with v > max_value raises the
\* value-exceeds-maximum error when max_error is true; when max_error is
\* false the call succeeds and afterwards max_value == v.
C3_ExceedingMaxValue ==
    (last.op = "update" /\ Prepared(last.pre)
       /\ Concrete(last.pre.max_value)
       /\ last.value > last.pre.max_value)
        => IF last.pre.max_error
           THEN last.exc = "ValueError"
           ELSE last.exc = "none" /\ bar.max_value = last.value

\* ------------------------------------------------------------------- C4
\* C4: start() on an unstarted bar makes it running (started, not
\* finished), sets start_time to the current time and performs exactly one
\* redraw, which shows min_value.
C4_StartRunsAndRedraws ==
    (last.op = "start" /\ Prepared(last.pre) /\ Phase(Prior) = "unstarted")
        => /\ bar.started /\ ~bar.finished
           /\ bar.start_time = last.t
           /\ RedrewShowing(last.pre.min_value)

\* ------------------------------------------------------------------- C5
\* C5: on a running bar with a concrete max_value, finish() sets value to
\* max_value and performs exactly one final redraw showing max_value, and
\* finish(dirty=True) leaves value where it was; either way the bar is
\* finished afterwards.
C5_FinishForcesMax ==
    (last.op = "finish" /\ Prepared(last.pre) /\ Phase(Prior) = "running"
       /\ Concrete(last.pre.max_value))
        => /\ bar.finished
           /\ IF last.dirty
              THEN bar.value = last.pre.value
              ELSE /\ bar.value = last.pre.max_value
                   /\ RedrewShowing(last.pre.max_value)

\* ------------------------------------------------------------------- C6
\* C6: finish() on a bar that finish() has already been called on changes
\* no field of the bar and writes nothing to the output stream.
C6_FinishIdempotent ==
    (last.op = "finish" /\ Phase(Prior) = "finished") => bar = last.pre

C6_Witness ==
    /\ last.op = "finish" /\ Phase(Prior) = "finished"
    /\ Len(calls) >= 2 /\ calls[Len(calls) - 1].op = "finish"

\* ------------------------------------------------------------------- C7
\* C7: once finish() has completed the bar is and stays finished, and a
\* later update() or finish() changes neither its value, nor its update
\* counter, nor its end_time; only init()/start() leave the finished state.
C7_FinishedIsFrozen ==
    /\ (Prepared(bar) /\ Phase(calls) = "finished") => bar.finished
    /\ (last.op \in {"update", "finish"} /\ Prepared(last.pre)
          /\ Phase(Prior) = "finished")
         => /\ bar.value = last.pre.value
            /\ bar.num_intervals = last.pre.num_intervals
            /\ bar.end_time = last.pre.end_time

\* ------------------------------------------------------------------- C8
\* C8: destroying a bar invokes finish() exactly when the bar has been
\* started and is not yet finished, and no failure leaves the destructor.
C8_DestructorFinishesRunningBar ==
    (last.op = "__del__" /\ Prepared(last.pre))
        => /\ (last.made = "finish") <=> (Phase(Prior) = "running")
           /\ last.exc = "none"

\* ------------------------------------------------------------------- C9
\* C9: iterating a bar that wraps a 0-length sequence invokes start() and
\* then finish(), each exactly once, with no update() in between.
C9_EmptySequenceStartsAndFinishes ==
    (last.op = "__next__" /\ last.exc = "StopIteration"
       /\ Prepared(last.pre)
       /\ wrapped = << >> /\ nexts = 1 /\ ByNext)
        => Ops(calls) = << "start", "finish" >>

\* ------------------------------------------------------------------ C10
\* C10: iterating a bar that wraps N >= 1 items to exhaustion invokes
\* start(), then N-1 times update(value + 1), each raising value by one,
\* then finish(); the items are returned unchanged and in order.  Every
\* retrieval before the one that ends the iteration returned an item.
C10_IterationCallSequence ==
    /\ (last.op = "__next__" /\ last.exc = "StopIteration"
          /\ Prepared(last.pre) /\ Len(returned) = nexts - 1
          /\ Len(wrapped) >= 1 /\ nexts = Len(wrapped) + 1 /\ ByNext)
         => /\ Ops(calls) = << "start" >>
                            \o [ i \in 1 .. Len(wrapped) - 1 |-> "update" ]
                            \o << "finish" >>
            /\ returned = wrapped
    /\ (last.op = "__next__" /\ last.made = "update")
         => bar.value = last.pre.value + 1

\* ------------------------------------------------------------------ C11
\* C11: when the consumer abandons the iteration before the wrapped
\* sequence is exhausted, finish(dirty=True) is invoked: the bar is
\* finished and its value is left where the last update put it.
C11_AbandonFinishesDirty ==
    (last.op = "abandon" /\ Prepared(last.pre))
        => /\ Len(calls) = last.n + 1
           /\ calls[Len(calls)].op = "finish"
           /\ bar.finished
           /\ bar.value = last.pre.value

\* ------------------------------------------------------------------ C12
\* C12: bar += delta (and increment(delta), which it delegates to) has the
\* effect of update(value + delta): it completes, and afterwards value is
\* the previous value plus delta.
C12_IncrementIsUpdate ==
    (last.op = "__iadd__" /\ Prepared(last.pre))
        => /\ last.exc = "none"
           /\ bar.value = last.pre.value + last.value

\* ------------------------------------------------------------------ C14
\* C14: with a concrete max_value and max_error enabled,
\* min_value <= value <= max_value in every reachable state.
C14_ValueWithinBounds ==
    (Prepared(bar) /\ Concrete(bar.max_value) /\ bar.max_error)
        => bar.min_value <= bar.value /\ bar.value <= bar.max_value

\* ------------------------------------------------------------------ C13
\* C13: constructing a bar with concrete bounds where max_value < min_value
\* fails with an error, for every such pair (max_value == 0 with a
\* positive min_value included), and the constructor produces no bar with
\* max_value < min_value.
C13_InvalidRangeRejected ==
    last.op = "construct"
        => /\ (Concrete(last.in.max_value)
                 /\ last.in.max_value < last.in.min_value)
                => last.exc # "none"
           /\ (hasattr(bar, "max_value") /\ Concrete(bar.max_value))
                => /\ hasattr(bar, "min_value")
                   /\ bar.min_value <= bar.max_value

\* The constructor was given max_value 0 below min_value 1 and raised.
C13_Witness ==
    /\ last.op = "construct" /\ last.exc # "none"
    /\ last.in.min_value = 1 /\ last.in.max_value = 0

\* ------------------------------------------------------------------ C15
\* C15: for concrete min <= value <= max with max > min, percentage is
\* (value - min) / (max - min) * 100; when max == min it is exactly 100,
\* whatever the value.
\* The value, min_value and max_value of b have been assigned.
Bounded(b) == { "value", "min_value", "max_value" } \subseteq b.dict

C15_PercentageFormula ==
    (last.op = "percentage" /\ Bounded(last.pre)
       /\ Concrete(last.pre.max_value))
        => LET b == last.pre IN
           /\ (b.max_value > b.min_value /\ b.min_value <= b.value
                 /\ b.value <= b.max_value)
                => /\ last.ret.kind = "float"
                   /\ last.ret.value
                        = FMul(FDiv(FromInt(b.value - b.min_value),
                                    FromInt(b.max_value - b.min_value)),
                               FromInt(100))
           /\ (b.max_value = b.min_value)
                => /\ last.ret.kind = "float"
                   /\ last.ret.value = FromInt(100)

\* 1 of 0..3 is 33.33333333333333, one unit in the last place below the
\* double nearest to 100/3.
C15_Witness ==
    /\ last.op = "percentage" /\ Bounded(last.pre)
    /\ last.pre.min_value = 0 /\ last.pre.value = 1
    /\ last.pre.max_value = 3
    /\ last.ret.kind = "float"
    /\ last.ret.value = FSub(FDiv(FromInt(100), FromInt(3)),
                             Float(1, << 1 >>, -47))

\* ------------------------------------------------------------------ C16
\* C16: percentage returns None, without raising, whenever max_value is
\* not a concrete number: when it is None and when it is the UnknownLength
\* sentinel that __call__ assigns for an iterable without a length.
C16_PercentageNoneWithoutMax ==
    (last.op = "percentage" /\ Bounded(last.pre)
       /\ last.pre.max_value \in {None, UnknownLength})
        => last.exc = "none" /\ last.ret.kind = "None"

\* ------------------------------------------------------------------ C17
\* C17: constructing a bar with initial_value = v within the bounds
\* completes, and the bar has value == v afterwards.
C17_InitialValueKept ==
    (last.op = "construct"
       /\ last.in.min_value <= last.in.initial_value
       /\ (Concrete(last.in.max_value)
             => last.in.initial_value <= last.in.max_value))
        => /\ last.exc = "none"
           /\ hasattr(bar, "value") /\ bar.value = last.in.initial_value

\* ------------------------------------------------------------------ C18
\* C18: constructing a bar with a valid range gives a bar whose effective
\* min_poll_interval is the maximum of the configured min_poll_interval
\* (when given), the absolute minimum and the environment's value: it is
\* one of them and below none of them.
C18_MinPollIntervalFloor ==
    (last.op = "construct"
       /\ ~(Concrete(last.in.max_value)
              /\ last.in.max_value < last.in.min_value))
        => LET m      == bar.min_poll_interval
               given  == last.in.min_poll_interval # None
               among  == { MINIMUM_UPDATE_INTERVAL, last.in.env_interval }
                         \cup (IF given THEN { last.in.min_poll_interval }
                               ELSE { })
           IN  /\ last.exc = "none" /\ hasattr(bar, "min_poll_interval")
               /\ m \in among /\ \A x \in among : m >= x

\* ------------------------------------------------------------------ C19
\* C19: from_env returns the highest colour level that any of TERM,
\* COLORTERM and COLOR indicates (truecolor for '24bit'/'truecolor', 256
\* colours for '256', 16 for 'xterm', none otherwise), whichever variable
\* carries it.
Indicated(value) ==
    IF Contains(Lower(value), "24bit") \/ Contains(Lower(value), "truecolor")
    THEN XTERM_TRUECOLOR
    ELSE IF Contains(Lower(value), "256") THEN XTERM_256
    ELSE IF Contains(Lower(value), "xterm") THEN XTERM
    ELSE NONE

C19_FromEnvHighestLevel ==
    (last.op = "from_env" /\ ~last.in.jupyter)
        => last.ret = Max(Max(Indicated(last.in.term),
                              Indicated(last.in.colorterm)),
                          Indicated(last.in.color))

\* ------------------------------------------------------------------ C20
\* C20: the enable_colors request resolves to: for None, 256 colours if
\* PROGRESSBAR_ENABLE_COLORS or FORCE_COLOR is a true flag, otherwise the
\* environment's level on an ANSI terminal and NONE elsewhere; for True,
\* 256 colours; for False, NONE; for a ColorSupport level, that level; for
\* anything else, a ValueError.
FlagIsTrue(raw) == raw \in { "1", " Yes ", "TRUE" }

C20_ResolveEnableColors ==
    last.op = "determine_enable_colors"
        => LET i == last.in
               k == i.enable_colors.kind
           IN  CASE k = "None" ->
                      /\ last.exc = "none"
                      /\ last.ret =
                           IF FlagIsTrue(i.enable_raw)
                                \/ FlagIsTrue(i.force_raw)
                           THEN XTERM_256
                           ELSE IF i.is_ansi_terminal THEN i.COLOR_SUPPORT
                           ELSE NONE
                 [] k = "True"  -> last.exc = "none" /\ last.ret = XTERM_256
                 [] k = "False" -> last.exc = "none" /\ last.ret = NONE
                 [] k = "ColorSupport" ->
                      last.exc = "none" /\ last.ret = i.enable_colors.level
                 [] OTHER -> last.exc = "ValueError" /\ bar = last.pre

C20_Witness ==
    /\ last.op = "determine_enable_colors"
    /\ last.in.enable_colors.kind = "None"
    /\ last.in.enable_raw = "off" /\ last.in.force_raw = " Yes "
    /\ ~last.in.is_ansi_terminal
    /\ last.ret = XTERM_256

\* ------------------------------------------------------------------ C21
\* C21: a gradient of one colour or more is total on [0, 1]: for every t
\* with 0 <= t <= 1 get_color returns a colour and raises nothing, and a
\* gradient of exactly one colour returns that colour.
InUnitInterval(t) == FCmp(t, Zero) >= 0 /\ FCmp(t, One) <= 0

C21_GradientTotal ==
    (last.op = "get_color" /\ InUnitInterval(last.in.value))
        => /\ last.exc = "none"
           /\ last.ret # NoColor
           /\ Len(last.in.colors) = 1 => last.ret = last.in.colors[1]

\* ------------------------------------------------------------------ C22
\* C22: apply_colors with a percentage p in 0..100 and a gradient in the
\* fg (or bg) slot colours the text with the gradient's colour at p/100:
\* the first stop at p = 0, the last stop at p = 100.
At(colors, p) == get_color(colors, FDiv(p, FromInt(100))).ret

C22_GradientAtPercentage ==
    (last.op = "apply_colors" /\ last.in.percentage # NoFloat)
        => /\ last.in.fg.kind = "ColorGradient"
                => /\ last.exc = "none"
                   /\ last.ret.fg_color
                        = ColorSlot(At(last.in.fg.colors, last.in.percentage))
           /\ (last.in.bg.kind = "ColorGradient" /\ last.exc = "none")
                => last.ret.bg_color
                     = ColorSlot(At(last.in.bg.colors, last.in.percentage))

\* ------------------------------------------------------------------ C23
\* C23: for N >= 2 stops, at(t) is colors[0] for t <= 0 and colors[N-1]
\* for t >= 1; for 0 < t < 1 it raises nothing, takes the segment
\* k = floor(t * (N-1)), which is at most N-2, and returns
\* interpolate(colors[k], colors[k+1], t * (N-1) - k); at an interior stop
\* t = k / (N-1) it returns colors[k].
\* floor(t * (N-1)) and t * (N-1) - k, evaluated in floats as the code
\* evaluates its own expressions.
StatedSegment(t, n) == FInt(FMul(t, FromInt(n)))
StatedFraction(t, n) ==
    FSub(FMul(t, FromInt(n)), FromInt(StatedSegment(t, n)))

\* The same rgb, name and terminal code: the hls channels of an
\* interpolated colour are floats and are compared up to their rounding.
SameColour(a, b) == a.rgb = b.rgb /\ a.name = b.name /\ a.xterm = b.xterm

C23_SegmentAndInterpolation ==
    (last.op = "get_color" /\ Len(last.in.colors) >= 2)
        => LET colors == last.in.colors
               t == last.in.value
               n == Len(colors) - 1
               k == StatedSegment(t, n)
           IN  /\ FCmp(t, Zero) <= 0 => last.ret = colors[1]
               /\ FCmp(t, One) >= 0 => last.ret = colors[n + 1]
               /\ (FCmp(t, Zero) > 0 /\ FCmp(t, One) < 0)
                    => /\ last.exc = "none"
                       /\ segment(colors, t) = k
                       /\ k <= n - 1
                       /\ SameColour(last.ret,
                                     interpolate(colors[k + 1], colors[k + 2],
                                                 StatedFraction(t, n)))
                       /\ \A j \in 1 .. n - 1 :
                            t = FDiv(FromInt(j), FromInt(n))
                                => last.ret = colors[j + 1]

\* ------------------------------------------------------------------ C24
\* C24: from_rgb returns, for every triple of channels in 0..255, a member
\* of the palette at minimal Euclidean distance from the triple, and the
\* first such member in enumeration order.
Member(name) == CHOOSE i \in DOMAIN WindowsColors : WindowsColors[i].name = name

C24_ClosestWindowsColor ==
    (last.op = "from_rgb" /\ \A i \in 1 .. 3 : last.in[i] \in 0 .. 255)
        => /\ \E i \in DOMAIN WindowsColors : WindowsColors[i].name = last.ret
           /\ \A i \in DOMAIN WindowsColors :
                /\ distance2(last.in, WindowsColors[Member(last.ret)].value)
                     <= distance2(last.in, WindowsColors[i].value)
                /\ i < Member(last.ret)
                     => distance2(last.in, WindowsColors[Member(last.ret)].value)
                          < distance2(last.in, WindowsColors[i].value)

\* (64, 0, 0) is as far from BLACK as from RED, and BLACK comes first.
C24_Witness ==
    /\ last.op = "from_rgb" /\ last.in = << 64, 0, 0 >>
    /\ distance2(last.in, WindowsColors[1].value)
         = distance2(last.in, WindowsColors[5].value)
    /\ last.ret = "BLACK"

\* ------------------------------------------------------------------ C25
\* C25: cursor-position queries exclude one another: at most one caller
\* is between writing its request and reading the terminator, no caller
\* consumes a byte of the reply to another caller's request, a second
\* request is written only after the first query has ended (returned or
\* raised), and the lock is held exactly by a caller inside the query.
InQuery(t) == cpr.pc[t] \in { "written", "reading" }

C25_QueriesExclude ==
    /\ Cardinality({ t \in Callers : InQuery(t) }) <= 1
    /\ \A t \in Callers :
         /\ cpr.took[t] \subseteq { t }
         /\ cpr.pc[t] \in { "locked", "written", "reading" } <=> cpr.lock = t
    /\ \A i \in DOMAIN cpr.out :
         i < Len(cpr.out) => cpr.pc[cpr.out[i]] \in { "returned", "raised" }

\* ------------------------------------------------------------------ C26
\* C26: a query writes the request, flushes and then reads character by
\* character: it leaves the loop only by returning, right after reading
\* 'R', with (row, column) as integers; while no 'R' has been read it
\* stays in the loop, raises nothing and holds the lock; and once the
\* reply is in the input the call returns.
IntPair(row, column) ==
    << [ int |-> TRUE, n |-> row, s |-> << >> ],
       [ int |-> TRUE, n |-> column, s |-> << >> ] >>

ReturnsReply(t) ==
    \E row \in Rows, column \in Columns :
        /\ cpr.res[t] = Reply(row, column)
        /\ cpr.ret[t] = IntPair(row, column)

\* A terminator is in the input of the reading caller t, whichever
\* request it answers.
ReplyArrived(t) ==
    /\ cpr.pc[t] = "reading"
    /\ \E i \in DOMAIN cpr.inp : cpr.inp[i].ch = "R"

C26_QueryReadsUntilR ==
    /\ [](\A t \in Callers :
            /\ cpr.pc[t] = "reading" => cpr.lock = t /\ cpr.out # << >>
            /\ cpr.pc[t] = "returned" => ReturnsReply(t))
    /\ [][\A t \in Callers :
            (cpr.pc[t] = "reading" /\ cpr'.pc[t] # "reading")
                => /\ cpr'.pc[t] = "returned"
                   /\ EndsWithR(cpr.res[t])]_vars
    /\ \A t \in Callers : ReplyArrived(t) ~> (cpr.pc[t] = "returned")

C26_Witness ==
    \E t \in Callers :
        /\ cpr.pc[t] = "returned"
        /\ cpr.res[t] = << "ESC", "[", "2", "4", ";", "8", "0", "R" >>
        /\ cpr.ret[t] = IntPair(24, 80)

\* ------------------------------------------------------------------ C27
\* C27 as stated: the average starts at 0, update(x, elapsed) sets value
\* to alpha*x + (1-alpha)*value and returns it whatever elapsed is, and
\* for a constant input x > 0 and 0 < alpha < 1 the returned sequence is
\* strictly increasing and never exceeds x (alpha = 0.5, x = 10 gives 5,
\* 7.5, 8.75, 9.375).
Recurrence ==
    /\ ema.n = 0 => ema.self.value = Zero
    /\ last.op = "ema_update"
         => /\ ema.self.value
                 = FAdd(FMul(ema.self.alpha, last.in.new_value),
                        FMul(FSub(One, ema.self.alpha), ema.previous))
            /\ last.ret = ema.self.value

ConstantPositive ==
    /\ last.op = "ema_update" /\ ema.constant
    /\ FCmp(ema.first, Zero) > 0
    /\ FCmp(ema.self.alpha, Zero) > 0 /\ FCmp(ema.self.alpha, One) < 0

FirstReturns ==
    (ConstantPositive /\ ema.self.alpha = Half /\ ema.first = FromInt(10))
        => /\ ema.n = 1 => last.ret = FromInt(5)
           /\ ema.n = 2 => last.ret = Float(1, << 15 >>, -1)
           /\ ema.n = 3 => last.ret = Float(1, << 35 >>, -2)
           /\ ema.n = 4 => last.ret = Float(1, << 75 >>, -3)

C27_EmaStrictlyIncreasing ==
    /\ Recurrence
    /\ FirstReturns
    /\ ConstantPositive
         => /\ FCmp(ema.previous, last.ret) < 0
            /\ FCmp(last.ret, ema.first) <= 0

\* C27, amended: the average starts at 0, update(x, elapsed) sets value
\* to the float alpha*x + (1-alpha)*value and returns it whatever elapsed
\* is, and for a constant input x > 0 and 0 < alpha < 1 the returned
\* sequence never decreases (alpha = 0.5, x = 10 gives 5, 7.5, 8.75,
\* 9.375).
C27_EmaNonDecreasing ==
    /\ Recurrence
    /\ FirstReturns
    /\ ConstantPositive => FCmp(ema.previous, last.ret) <= 0

C27_Witness ==
    /\ ConstantPositive /\ ema.self.alpha = Half /\ ema.first = FromInt(10)
    /\ ema.n = 4 /\ last.in.elapsed = 1
    /\ last.ret = Float(1, << 75 >>, -3)

\* ------------------------------------------------------------------ C28
\* C28: after any sequence of register calls the indices by name, by
\* lower-case name and by rgb hold every colour registered under the key,
\* in registration order, and the index by terminal code holds a
\* registered colour of that code.
RECURSIVE Registered(_, _, _)
Registered(log, field, key) ==
    IF log = << >> THEN << >>
    ELSE LET c == log[Len(log)]
             k == CASE field = "name" -> c.name
                    [] field = "lowername" -> lower(c.name)
                    [] OTHER -> c.rgb
             before == Registered(SubSeq(log, 1, Len(log) - 1), field, key)
         IN  IF k = key THEN Append(before, c) ELSE before

C28_IndicesKeepEveryColour ==
    LET cls == registry.cls
        log == registry.registered
        all == { log[i] : i \in DOMAIN log }
    IN  /\ DOMAIN cls.by_name = { c.name : c \in all }
        /\ DOMAIN cls.by_lowername = { lower(c.name) : c \in all }
        /\ DOMAIN cls.by_rgb = { c.rgb : c \in all }
        /\ DOMAIN cls.by_xterm = { c.xterm : c \in all }
        /\ \A k \in DOMAIN cls.by_name :
             cls.by_name[k] = Registered(log, "name", k)
        /\ \A k \in DOMAIN cls.by_lowername :
             cls.by_lowername[k] = Registered(log, "lowername", k)
        /\ \A k \in DOMAIN cls.by_rgb :
             cls.by_rgb[k] = Registered(log, "rgb", k)
        /\ \A k \in DOMAIN cls.by_xterm :
             cls.by_xterm[k] \in all /\ cls.by_xterm[k].xterm = k

\* The name "red" has been registered twice, with different colours.
C28_Witness ==
    /\ last.op = "register"
    /\ "red" \in DOMAIN registry.cls.by_name
    /\ Len(registry.cls.by_name["red"]) = 2
    /\ registry.cls.by_name["red"][1].rgb # registry.cls.by_name["red"][2].rgb
    /\ "red" \in DOMAIN registry.cls.by_lowername
    /\ Len(registry.cls.by_lowername["red"]) = 3

\* ------------------------------------------------------------------ C29
\* C29: the resize handler changes nothing of the bar but term_width
\* (value, bounds, lifecycle flags, counters and timestamps stay), it is
\* idempotent for an unchanged terminal size, and it leaves term_width
\* as it is when the size query fails or reports width 0.
C29_ResizeOnlySetsWidth ==
    last.op = "_handle_resize"
        => /\ [ bar EXCEPT !.term_width = last.pre.term_width ] = last.pre
           /\ Len(calls) = last.n
           /\ handle_resize(bar, last.size) = bar
           /\ (last.size.exc # "none" \/ last.size.width = 0)
                => bar.term_width = last.pre.term_width

\* The terminal was resized from 40 to 120 columns after a start().
C29_Witness ==
    /\ last.op = "_handle_resize"
    /\ last.pre.term_width = 40 /\ bar.term_width = 120
    /\ \E i \in DOMAIN calls : calls[i].op = "start"

\* ------------------------------------------------------------------ C30
\* C30: leaving the with-block of a running bar finishes it: a normal
\* exit calls finish(dirty=False), which forces the value to max_value,
\* an exit by an exception calls finish(dirty=True), which leaves the
\* value where it was, and the bar is finished afterwards.
C30_ExitFinishes ==
    (last.op = "__exit__" /\ Prepared(last.pre)
       /\ Phase(Prior) = "running")
        => /\ last.made = "finish"
           /\ last.dirty <=> last.exc # "None"
           /\ bar.finished
           /\ IF last.dirty THEN bar.value = last.pre.value
              ELSE Concrete(last.pre.max_value)
                     => bar.value = last.pre.max_value

====
